---- MODULE Spec2Model ----
(***************************************************************************)
(* Model of src/mtp/pylibmtp.py: the MTP session object (class MTP), its   *)
(* connect/disconnect lifecycle and its object and storage operations,     *)
(* together with the libmtp engine it drives through ctypes.  The engine   *)
(* is an external collaborator: what it answers to a call is chosen        *)
(* nondeterministically, and every call the session issues is recorded.    *)
(***************************************************************************)
EXTENDS Integers, Sequences, FiniteSets, TLC

\* ------------------------------------------------------------------ bounds
\* Upper bound on the number of devices the engine opens in one behaviour.
MaxOpens == 2

\* ------------------------------------------------------- values of the code
\* Python's None, as the value of self.device and self._new_raw_device.
None == 0
\* A ctypes pointer instance holding NULL: falsy, but `is None` is false.
NullPtr == -1
\* Handles the engine can hand out; every successful open yields a fresh one.
Handles == 1..MaxOpens
\* The raw device descriptor a session can be constructed with.
RawDevice == 1

\* Integers of the program that need more than TLC's machine integers (object
\* ids up to 0xFFFFFFFF, Python's unbounded int) are written in base 2^16:
\* [hi, lo] stands for hi * 2^16 + lo with 0 <= lo < 2^16.  A uint32 has
\* 0 <= hi < 2^16, a signed 32-bit integer -2^15 <= hi < 2^15.
Word == 65536
HalfWord == 32768
W(hi, lo) == [hi |-> hi, lo |-> lo]
\* The wide form of a small integer n.
Num(n) == W(n \div Word, n % Word)
IsZero(v) == v.hi = 0 /\ v.lo = 0
IsPositive(v) == v.hi > 0 \/ (v.hi = 0 /\ v.lo > 0)

\* A Python int passed through an argtypes entry or struct field of
\* c_uint32: its low 32 bits, unsigned.
ToCUint32(v) == W(v.hi % Word, v.lo)

\* int(...) of a foreign result declared restype = ctypes.c_int: the 32 bits
\* the engine returned, read as a signed integer.
ToCInt(v) ==
    LET h == v.hi % Word IN W(IF h >= HalfWord THEN h - Word ELSE h, v.lo)

\* ------------------------------------------------------------------- text
\* A Python str is the sequence of its code points, a bytes object the
\* sequence of its bytes (0..255).  A conversion yields [ok, v]: ok is FALSE
\* when Python raises UnicodeEncodeError / UnicodeDecodeError.
Ok(v) == [ok |-> TRUE, v |-> v]
Fail == [ok |-> FALSE, v |-> <<>>]

\* The UTF-8 bytes of one code point; <<>> for a lone surrogate, which
\* str.encode("UTF-8") refuses.
EncodeCodePoint(c) ==
    IF c < 128 THEN <<c>>
    ELSE IF c < 2048 THEN <<192 + (c \div 64), 128 + (c % 64)>>
    ELSE IF c >= 55296 /\ c <= 57343 THEN <<>>
    ELSE IF c < 65536
         THEN <<224 + (c \div 4096), 128 + ((c \div 64) % 64), 128 + (c % 64)>>
    ELSE <<240 + (c \div 262144), 128 + ((c \div 4096) % 64),
           128 + ((c \div 64) % 64), 128 + (c % 64)>>

RECURSIVE EncodeFrom(_, _)
EncodeFrom(s, i) ==
    IF i > Len(s) THEN Ok(<<>>)
    ELSE LET b == EncodeCodePoint(s[i])
             rest == EncodeFrom(s, i + 1)
         IN IF b = <<>> \/ ~rest.ok THEN Fail ELSE Ok(b \o rest.v)

\* s.encode("UTF-8")
Utf8Encode(s) == EncodeFrom(s, 1)

IsCont(b, i) == i <= Len(b) /\ b[i] >= 128 /\ b[i] <= 191

\* The code point starting at byte i and the number of bytes it takes; n = 0
\* when the bytes at i are not a well-formed UTF-8 sequence (strict decoding:
\* no overlong forms, no surrogates, nothing above U+10FFFF).
DecodeAt(b, i) ==
    LET b0 == b[i] IN
    IF b0 < 128 THEN [n |-> 1, c |-> b0]
    ELSE IF b0 >= 194 /\ b0 <= 223 /\ IsCont(b, i + 1)
         THEN [n |-> 2, c |-> (b0 - 192) * 64 + (b[i + 1] - 128)]
    ELSE IF b0 >= 224 /\ b0 <= 239 /\ IsCont(b, i + 1) /\ IsCont(b, i + 2)
            /\ (b0 = 224 => b[i + 1] >= 160) /\ (b0 = 237 => b[i + 1] <= 159)
         THEN [n |-> 3, c |-> (b0 - 224) * 4096 + (b[i + 1] - 128) * 64 + (b[i + 2] - 128)]
    ELSE IF b0 >= 240 /\ b0 <= 244 /\ IsCont(b, i + 1) /\ IsCont(b, i + 2) /\ IsCont(b, i + 3)
            /\ (b0 = 240 => b[i + 1] >= 144) /\ (b0 = 244 => b[i + 1] <= 143)
         THEN [n |-> 4, c |-> (b0 - 240) * 262144 + (b[i + 1] - 128) * 4096
                               + (b[i + 2] - 128) * 64 + (b[i + 3] - 128)]
    ELSE [n |-> 0, c |-> 0]

RECURSIVE DecodeFrom(_, _)
DecodeFrom(b, i) ==
    IF i > Len(b) THEN Ok(<<>>)
    ELSE LET d == DecodeAt(b, i) IN
         IF d.n = 0 THEN Fail
         ELSE LET rest == DecodeFrom(b, i + d.n) IN
              IF rest.ok THEN Ok(<<d.c>> \o rest.v) ELSE Fail

\* b.decode("UTF-8")
Utf8Decode(b) == DecodeFrom(b, 1)

\* ------------------------------------------------------------ find_filetype
LIBMTP_Filetype ==
    [ FOLDER |-> 0,
      WAV |-> 1,
      MP3 |-> 2,
      WMA |-> 3,
      OGG |-> 4,
      AUDIBLE |-> 5,
      MP4 |-> 6,
      UNDEF_AUDIO |-> 7,
      WMV |-> 8,
      AVI |-> 9,
      MPEG |-> 10,
      ASF |-> 11,
      QT |-> 12,
      UNDEF_VIDEO |-> 13,
      JPEG |-> 14,
      JFIF |-> 15,
      TIFF |-> 16,
      BMP |-> 17,
      GIF |-> 18,
      PICT |-> 19,
      PNG |-> 20,
      VCALENDAR1 |-> 21,
      VCALENDAR2 |-> 22,
      VCARD2 |-> 23,
      VCARD3 |-> 24,
      WINDOWSIMAGEFORMAT |-> 25,
      WINEXEC |-> 26,
      TEXT |-> 27,
      HTML |-> 28,
      FIRMWARE |-> 29,
      AAC |-> 30,
      MEDIACARD |-> 31,
      FLAC |-> 32,
      MP2 |-> 33,
      M4A |-> 34,
      DOC |-> 35,
      XML |-> 36,
      XLS |-> 37,
      PPT |-> 38,
      MHT |-> 39,
      JP2 |-> 40,
      JPX |-> 41,
      ALBUM |-> 42,
      PLAYLIST |-> 43,
      UNKNOWN |-> 44 ]

\* str.lower() on one code point (ASCII and Latin-1 capitals).
LowerCodePoint(c) ==
    IF c >= 65 /\ c <= 90 THEN c + 32
    ELSE IF c >= 192 /\ c <= 222 /\ c # 215 THEN c + 32
    ELSE c

Lower(s) == [i \in 1..Len(s) |-> LowerCodePoint(s[i])]

\* LastDotPart that takes what follows the first "." instead.
LastDotPart_first(s) ==
    LET dots == {i \in 1..Len(s) : s[i] = 46}
        from == IF dots = {} THEN 1
                ELSE (CHOOSE i \in dots : \A j \in dots : i <= j) + 1
    IN SubSeq(s, from, Len(s))

\* s.split(".")[-1]: what follows the last "." (code point 46), the whole
\* string when it holds none.
LastDotPart(s) ==
    LET dots == {i \in 1..Len(s) : s[i] = 46}
        from == IF dots = {} THEN 1
                ELSE (CHOOSE i \in dots : \A j \in dots : j <= i) + 1
    IN SubSeq(s, from, Len(s))

\* file_extension without the lower-casing.
file_extension_nolower(filename) == LastDotPart(filename)

\* `filename.lower().split(".")[-1]`
file_extension(filename) == LastDotPart(Lower(filename))

find_filetype(filename) ==
    LET fileext == file_extension(filename) IN
    \* wav wave
    IF fileext = <<119, 97, 118>> \/ fileext = <<119, 97, 118, 101>> THEN LIBMTP_Filetype.WAV
    \* mp3
    ELSE IF fileext = <<109, 112, 51>> THEN LIBMTP_Filetype.MP3
    \* wma
    ELSE IF fileext = <<119, 109, 97>> THEN LIBMTP_Filetype.WMA
    \* ogg
    ELSE IF fileext = <<111, 103, 103>> THEN LIBMTP_Filetype.OGG
    \* mp4
    ELSE IF fileext = <<109, 112, 52>> THEN LIBMTP_Filetype.MP4
    \* wmv
    ELSE IF fileext = <<119, 109, 118>> THEN LIBMTP_Filetype.WMV
    \* avi
    ELSE IF fileext = <<97, 118, 105>> THEN LIBMTP_Filetype.AVI
    \* mpeg mpg
    ELSE IF fileext = <<109, 112, 101, 103>> \/ fileext = <<109, 112, 103>> THEN LIBMTP_Filetype.MPEG
    \* asf
    ELSE IF fileext = <<97, 115, 102>> THEN LIBMTP_Filetype.ASF
    \* qt mov
    ELSE IF fileext = <<113, 116>> \/ fileext = <<109, 111, 118>> THEN LIBMTP_Filetype.QT
    \* jpeg jpg
    ELSE IF fileext = <<106, 112, 101, 103>> \/ fileext = <<106, 112, 103>> THEN LIBMTP_Filetype.JPEG
    \* jfif
    ELSE IF fileext = <<106, 102, 105, 102>> THEN LIBMTP_Filetype.JFIF
    \* tif tiff
    ELSE IF fileext = <<116, 105, 102>> \/ fileext = <<116, 105, 102, 102>> THEN LIBMTP_Filetype.TIFF
    \* bmp
    ELSE IF fileext = <<98, 109, 112>> THEN LIBMTP_Filetype.BMP
    \* gif
    ELSE IF fileext = <<103, 105, 102>> THEN LIBMTP_Filetype.GIF
    \* pic pict
    ELSE IF fileext = <<112, 105, 99>> \/ fileext = <<112, 105, 99, 116>> THEN LIBMTP_Filetype.PICT
    \* png
    ELSE IF fileext = <<112, 110, 103>> THEN LIBMTP_Filetype.PNG
    \* wmf
    ELSE IF fileext = <<119, 109, 102>> THEN LIBMTP_Filetype.WINDOWSIMAGEFORMAT
    \* ics
    ELSE IF fileext = <<105, 99, 115>> THEN LIBMTP_Filetype.VCALENDAR2
    \* exe com bat dll sys
    ELSE IF fileext = <<101, 120, 101>> \/ fileext = <<99, 111, 109>> \/ fileext = <<98, 97, 116>> \/ fileext = <<100, 108, 108>> \/ fileext = <<115, 121, 115>> THEN LIBMTP_Filetype.WINEXEC
    \* aac
    ELSE IF fileext = <<97, 97, 99>> THEN LIBMTP_Filetype.AAC
    \* mp2
    ELSE IF fileext = <<109, 112, 50>> THEN LIBMTP_Filetype.MP2
    \* flac
    ELSE IF fileext = <<102, 108, 97, 99>> THEN LIBMTP_Filetype.FLAC
    \* m4a
    ELSE IF fileext = <<109, 52, 97>> THEN LIBMTP_Filetype.M4A
    \* doc
    ELSE IF fileext = <<100, 111, 99>> THEN LIBMTP_Filetype.DOC
    \* xml
    ELSE IF fileext = <<120, 109, 108>> THEN LIBMTP_Filetype.XML
    \* xls
    ELSE IF fileext = <<120, 108, 115>> THEN LIBMTP_Filetype.XLS
    \* ppt
    ELSE IF fileext = <<112, 112, 116>> THEN LIBMTP_Filetype.PPT
    \* mht
    ELSE IF fileext = <<109, 104, 116>> THEN LIBMTP_Filetype.MHT
    \* jp2
    ELSE IF fileext = <<106, 112, 50>> THEN LIBMTP_Filetype.JP2
    \* jpx
    ELSE IF fileext = <<106, 112, 120>> THEN LIBMTP_Filetype.JPX
    ELSE LIBMTP_Filetype.UNKNOWN

\* -------------------------------------------------- inputs of find_filetype
\* Length of the filenames spelled out letter by letter.
MaxLen == 4

\* str.upper() on one code point (ASCII).
UpperCodePoint(c) == IF c >= 97 /\ c <= 122 THEN c - 32 ELSE c
Upper(s) == [i \in 1..Len(s) |-> UpperCodePoint(s[i])]

\* The letters m, p, 3, M, P and the dot.
Alphabet == {109, 112, 51, 77, 80, 46}

\* Every filename of up to MaxLen letters of the alphabet.
ShortFilenames == UNION { [1..n -> Alphabet] : n \in 0..MaxLen }

\* The extensions find_filetype compares with, and some it does not know.
Extensions ==
    {
      <<119, 97, 118>>,           \* wav
      <<119, 97, 118, 101>>,      \* wave
      <<109, 112, 51>>,           \* mp3
      <<119, 109, 97>>,           \* wma
      <<111, 103, 103>>,          \* ogg
      <<109, 112, 52>>,           \* mp4
      <<119, 109, 118>>,          \* wmv
      <<97, 118, 105>>,           \* avi
      <<109, 112, 101, 103>>,     \* mpeg
      <<109, 112, 103>>,          \* mpg
      <<97, 115, 102>>,           \* asf
      <<113, 116>>,               \* qt
      <<109, 111, 118>>,          \* mov
      <<106, 112, 101, 103>>,     \* jpeg
      <<106, 112, 103>>,          \* jpg
      <<106, 102, 105, 102>>,     \* jfif
      <<116, 105, 102>>,          \* tif
      <<116, 105, 102, 102>>,     \* tiff
      <<98, 109, 112>>,           \* bmp
      <<103, 105, 102>>,          \* gif
      <<112, 105, 99>>,           \* pic
      <<112, 105, 99, 116>>,      \* pict
      <<112, 110, 103>>,          \* png
      <<119, 109, 102>>,          \* wmf
      <<105, 99, 115>>,           \* ics
      <<101, 120, 101>>,          \* exe
      <<99, 111, 109>>,           \* com
      <<98, 97, 116>>,            \* bat
      <<100, 108, 108>>,          \* dll
      <<115, 121, 115>>,          \* sys
      <<97, 97, 99>>,             \* aac
      <<109, 112, 50>>,           \* mp2
      <<102, 108, 97, 99>>,       \* flac
      <<109, 52, 97>>,            \* m4a
      <<100, 111, 99>>,           \* doc
      <<120, 109, 108>>,          \* xml
      <<120, 108, 115>>,          \* xls
      <<112, 112, 116>>,          \* ppt
      <<109, 104, 116>>,          \* mht
      <<106, 112, 50>>,           \* jp2
      <<106, 112, 120>>,          \* jpx
      <<116, 120, 116>>,          \* txt
      <<104, 116, 109>>,          \* htm
      <<109, 112, 51, 51>>,       \* mp33
      <<119, 97, 118, 50>>,       \* wav2
      <<109, 112, 101>>,          \* mpe
      <<>>                        \* (none)
    }

\* What precedes the extension: nothing, "track", "a.b".
Stems == {<<>>, <<116, 114, 97, 99, 107>>, <<97, 46, 98>>}

\* Stem, with or without a dot, and an extension in lower or upper case.
LongFilenames ==
    { stem \o sep \o ext : stem \in Stems, sep \in {<<>>, <<46>>},
                           ext \in Extensions \cup {Upper(e) : e \in Extensions} }

Filenames == ShortFilenames \cup LongFilenames

VARIABLES
    libmtp_is_initialized,  \* the class attribute MTP.libmtp_is_initialized
    device,            \* self.device
    new_raw_device,    \* self._new_raw_device
    raw_devices,       \* self.raw_devices
    op,                \* the operation invoked last: [name, args]
    result,            \* its outcome: [kind, exc, val]
    calls,             \* the engine calls it issued, in order
    lastOpened,        \* engine: handle returned by the latest successful open
    releaseCount,      \* engine: per handle, number of release calls received
    dev_storage        \* engine: the storage list of the open device (device->storage)

vars == <<libmtp_is_initialized, device, new_raw_device, raw_devices, op, result,
          calls, lastOpened, releaseCount, dev_storage>>

\* ------------------------------------------------------------ bookkeeping
\* One engine call: function, device argument, other arguments, return value.
Call(fn, h, args, ret) == [fn |-> fn, h |-> h, args |-> args, ret |-> ret]

Return(v) == [kind |-> "return", exc |-> "", val |-> v]
Raise(e) == [kind |-> "raise", exc |-> e, val |-> <<>>]
\* The handler never comes back (a loop that does not end).
Hang == [kind |-> "hang", exc |-> "", val |-> <<>>]

\* The handler `name` ran with `args`, issued `cs` and ended with `res`.
\* No method assigns the class attribute MTP.libmtp_is_initialized.
Ran(name, args, res, cs) ==
    /\ op' = [name |-> name, args |-> args]
    /\ result' = res
    /\ calls' = cs
    /\ UNCHANGED libmtp_is_initialized

EngineUnchanged == UNCHANGED <<lastOpened, releaseCount, dev_storage>>

\* A handler that touches neither the session's fields nor a device's life.
Data(name, args, res, cs) ==
    /\ Ran(name, args, res, cs)
    /\ UNCHANGED <<device, new_raw_device, raw_devices>>
    /\ EngineUnchanged

\* Upper bound on the number of raw devices an enumeration reports.
MaxDevices == 2

\* ---------------------------------------------------- foreign linked lists
\* Number of nodes of a foreign list.
MaxNodes == 2
Nodes == 1..MaxNodes
\* The NULL pointer of a `next` field or list head.
NULL == 0

RECURSIVE Hop(_, _, _)
\* The pointer reached from p after k times `.contents.next`.
Hop(next, p, k) ==
    IF k = 0 \/ p = NULL THEN p ELSE Hop(next, next[p], k - 1)

\* The list of nodes 1..len in which node len points to `last`: NULL, a node
\* of the list (a cycle; last = len is a self-loop) or the node after it.
ForeignList(len, last) ==
    [ head |-> IF len = 0 THEN NULL ELSE 1,
      next |-> [n \in Nodes |-> IF n < len THEN n + 1
                                ELSE IF n = len /\ last <= len + 1 THEN last
                                ELSE NULL] ]

\* The lists the engine can hand over, up to the naming of the nodes: every
\* length up to MaxNodes, ending in NULL or running into a cycle.
ForeignLists ==
    { ForeignList(len, last) : len \in 0..MaxNodes, last \in Nodes \cup {NULL} }

\* The chain from the head reaches NULL.
Acyclic(l) == Hop(l.next, l.head, MaxNodes) = NULL

RECURSIVE Collect_short(_, _)
\* Collect that leaves the loop before it appends the last node.
Collect_short(next, p) ==
    IF p = NULL \/ next[p] = NULL THEN <<>> ELSE <<p>> \o Collect_short(next, next[p])

RECURSIVE Collect(_, _)
\* `while next: ret.append(next.contents); ...; next = next.contents.next`
\* on a chain that ends.  The test `next.contents.next is None` is never
\* true: a POINTER field reads as a pointer instance, NULL or not.
Collect(next, p) ==
    IF p = NULL THEN <<>> ELSE <<p>> \o Collect(next, next[p])

\* The outcome of walking list l: the nodes visited in order, or no end.
WalkList(l) ==
    IF Acyclic(l) THEN Return(Collect(l.next, l.head)) ELSE Hang

\* The storage list a device structure holds: the list and the description
\* bytes of its node 1.  NoStorage: no list (storage = NULL).
NoStorage == [list |-> [head |-> NULL, next |-> [n \in Nodes |-> NULL]], d1 |-> <<83, 49>>]

\* ---------------------------------------------------------------- __init__
\* ---------------------------------------------------------------- __init__
\* `if not self.libmtp_is_initialized: self.mtp.LIBMTP_Init()`: the read of
\* the attribute on a new object finds the class attribute, flag.
init_calls(flag) ==
    IF ~flag THEN <<Call("LIBMTP_Init", None, <<>>, None)>> ELSE <<>>

\* The session after `MTP(new_raw_device)`, the first one of the process:
\* the class attribute is False as the class body leaves it.
Init ==
    /\ libmtp_is_initialized = FALSE
    /\ device = None
    /\ new_raw_device \in {None, RawDevice}
    /\ raw_devices = None
    /\ op = [name |-> "__init__", args |-> <<>>]
    /\ result = Return(<<>>)
    /\ calls = init_calls(FALSE)
    /\ lastOpened = None
    /\ releaseCount = [h \in Handles |-> 0]
    /\ dev_storage = NoStorage

\* The construction of a further MTP object in the process.  It has fields
\* of its own and leaves those of the session at hand alone.
\* `self.libmtp_is_initialized = True` binds an attribute of the new object:
\* the class attribute keeps its value.
MTP__init__ ==
    /\ Data("__init__", <<>>, Return(<<>>), init_calls(libmtp_is_initialized))
    /\ libmtp_is_initialized' = libmtp_is_initialized

\* ------------------------------------------------------------- debug_stack
DEBUG == 1

\* The engine calls debug_stack issues for self.device = dev.
debug_stack(dev) ==
    IF DEBUG # 0
    THEN <<Call("LIBMTP_Dump_Errorstack", dev, <<>>, 0)>>
    ELSE <<>>

\* ----------------------------------------------------------------- connect
\* What LIBMTP_Open_Raw_Device_Uncached can answer: NULL or a fresh handle
\* (as long as the bound on opens allows one).
OpenAnswers ==
    {NullPtr} \cup (IF lastOpened < MaxOpens THEN {lastOpened + 1} ELSE {})

\* connect_precheck without the test of self.device.
connect_precheck_reopen(dev, raw) ==
    IF raw = None THEN "ObjectNotFound" ELSE ""

\* connect_precheck without the test of self._new_raw_device.
connect_precheck_noraw(dev, raw) ==
    IF dev # None THEN "AlreadyConnected" ELSE ""

\* The checks connect makes before it touches the engine: the exception it
\* raises, "" when it goes on.
connect_precheck(dev, raw) ==
    IF dev # None THEN "AlreadyConnected"
    ELSE IF raw = None THEN "ObjectNotFound"
    ELSE ""

\* connect_device without the reset of a NULL result to None.
connect_device_null(d) == d

\* self.device after the open call answered d (`if not self.device`).
connect_device(d) == IF d = NullPtr THEN None ELSE d

connect ==
    LET pre == connect_precheck(device, new_raw_device) IN
    \/ /\ pre # ""
       /\ Data("connect", <<>>, Raise(pre), <<>>)
    \/ /\ pre = ""
       /\ \E d \in OpenAnswers :
            /\ Ran("connect", <<>>,
                   IF d = NullPtr THEN Raise("NoDeviceConnected") ELSE Return(<<>>),
                   <<Call("LIBMTP_Open_Raw_Device_Uncached", None, <<new_raw_device>>, d)>>)
            /\ device' = connect_device(d)
            /\ lastOpened' = IF d = NullPtr THEN lastOpened ELSE d
            /\ UNCHANGED <<new_raw_device, raw_devices, releaseCount, dev_storage>>

\* -------------------------------------------------------------- disconnect
\* LIBMTP_Release_Device's result is not looked at; whatever it reports is
\* drawn from here.
ReleaseAnswers == {0, 1}

\* The engine's bookkeeping of a release call on argument h.
Released(h) ==
    IF h \in Handles
    THEN [releaseCount EXCEPT ![h] = @ + 1]
    ELSE releaseCount

\* disconnect_device that keeps the handle.
disconnect_device_stale(dev, r) == dev

\* disconnect_device that gives the handle up only when the release went well.
disconnect_device_onerror(dev, r) == IF r = 0 THEN None ELSE dev

\* self.device once the release call has returned r (`del self.device;
\* self.device = None`).
disconnect_device(dev, r) == None

\* disconnect that drops the handle without the release call.
disconnect_norelease ==
    LET pre == IF device = None THEN "NotConnected" ELSE "" IN
    \/ /\ pre # ""
       /\ Data("disconnect", <<>>, Raise(pre), <<>>)
    \/ /\ pre = ""
       /\ Ran("disconnect", <<>>, Return(<<>>), <<>>)
       /\ device' = None
       /\ dev_storage' = NoStorage
       /\ UNCHANGED <<new_raw_device, raw_devices, lastOpened, releaseCount>>

\* disconnect that gives the descriptor up with the handle.
disconnect_consume ==
    LET pre == IF device = None THEN "NotConnected" ELSE "" IN
    \/ /\ pre # ""
       /\ Data("disconnect", <<>>, Raise(pre), <<>>)
    \/ /\ pre = ""
       /\ \E r \in ReleaseAnswers :
            Ran("disconnect", <<>>, Return(<<>>),
                <<Call("LIBMTP_Release_Device", device, <<>>, r)>>)
       /\ device' = None
       /\ new_raw_device' = None
       /\ releaseCount' = Released(device)
       /\ dev_storage' = NoStorage
       /\ UNCHANGED <<raw_devices, lastOpened>>

\* disconnect_precheck that lets every call through.
disconnect_precheck_none(dev) == ""

disconnect_precheck(dev) == IF dev = None THEN "NotConnected" ELSE ""

disconnect ==
    LET pre == disconnect_precheck(device) IN
    \/ /\ pre # ""
       /\ Data("disconnect", <<>>, Raise(pre), <<>>)
    \/ /\ pre = ""
       /\ \E r \in ReleaseAnswers :
            /\ Ran("disconnect", <<>>, Return(<<>>),
                   <<Call("LIBMTP_Release_Device", device, <<>>, r)>>)
            /\ device' = disconnect_device(device, r)
       /\ releaseCount' = Released(device)
       /\ dev_storage' = NoStorage
       /\ UNCHANGED <<new_raw_device, raw_devices, lastOpened>>

\* ------------------------------------------- get_devicename and its kin
\* A NULL char pointer, which a c_char_p restype turns into None.
NullStr == <<-1>>

\* What the engine can answer to a string getter: NULL, "Ne", "e-acute" in
\* UTF-8, and a byte sequence that is not UTF-8.
StringAnswers == {NullStr, <<78, 101>>, <<195, 169>>, <<195>>}

\* engine_result.decode("UTF-8")
DecodeAnswer(b) ==
    IF b = NullStr THEN Raise("AttributeError")
    ELSE LET d == Utf8Decode(b) IN
         IF d.ok THEN Return(d.v) ELSE Raise("UnicodeDecodeError")

\* StringGetter without the test of self.device.
StringGetter_unguarded(name, fn) ==
    \E b \in StringAnswers :
        Data(name, <<>>, DecodeAnswer(b), <<Call(fn, device, <<>>, b)>>)

\* The three getters differ in the engine function only.
StringGetter(name, fn) ==
    IF device = None
    THEN Data(name, <<>>, Raise("NotConnected"), <<>>)
    ELSE \E b \in StringAnswers :
            Data(name, <<>>, DecodeAnswer(b), <<Call(fn, device, <<>>, b)>>)

get_devicename == StringGetter("get_devicename", "LIBMTP_Get_Friendlyname")

get_modelname == StringGetter("get_modelname", "LIBMTP_Get_Modelname")

get_serialnumber == StringGetter("get_serialnumber", "LIBMTP_Get_Serialnumber")

\* ----------------------------------------------------------- create_folder
\* Marks an argument the caller left out (not a number: lo is no digit).
Omitted == W(0, -1)

\* Folder names: "Mu", "e-acute" and a lone surrogate (as os.listdir yields
\* for undecodable file names).
Names == {<<77, 117>>, <<233>>, <<55296>>}
ParentArgs == {Omitted, Num(7), W(65535, 65535)}
StorageArgs == {Omitted, W(1, 1)}
\* The uint32 LIBMTP_Create_Folder can answer: 0, 42, 2^31.
FolderIdAnswers == {Num(0), Num(42), W(32768, 0)}

\* The value of a parameter whose default is 0.
Default0(a) == IF a = Omitted THEN Num(0) ELSE a

\* int(self.mtp.LIBMTP_Create_Folder(...)) for the engine's answer id.
create_folder_ret(id) == ToCInt(id)

create_folder ==
    \E name \in Names, parent \in ParentArgs, storage \in StorageArgs :
        LET args == <<name, parent, storage>>
            enc == Utf8Encode(name)
        IN
        IF device = None
        THEN Data("create_folder", args, Raise("NotConnected"), <<>>)
        ELSE IF ~enc.ok
        THEN Data("create_folder", args, Raise("UnicodeEncodeError"), <<>>)
        ELSE \E id \in FolderIdAnswers :
            LET c == Call("LIBMTP_Create_Folder", device,
                          <<enc.v, ToCUint32(Default0(parent)), ToCUint32(Default0(storage))>>,
                          id)
                ret == create_folder_ret(id)
            IN
            IF IsZero(ret)
            THEN Data("create_folder", args, Raise("CommandFailed"),
                      <<c>> \o debug_stack(device))
            ELSE Data("create_folder", args, Return(ret), <<c>>)

\* ----------------------------------------------------- send_file_from_file
\* Local paths: "a.MP3" and "no" (no extension).
SourcePaths == {<<97, 46, 77, 80, 51>>, <<110, 111>>}
\* Target names on the device: "t.x" and a lone surrogate.
TargetNames == {<<116, 46, 120>>, <<56320>>}
StorageIds == {Num(0), W(1, 1)}
ParentIds == {W(65535, 65535)}
\* os.stat(source).st_size
FileSizes == {Num(0), Num(1024)}
\* Status codes of the transfer and delete calls.
StatusAnswers == {0, -1, 1}

\* transfer_failed that takes only a negative status for a failure.
transfer_failed_negative(ret) == ret < 0

\* `if ret != 0` on the status of a transfer or delete call.
transfer_failed(ret) == ret # 0
\* The item_id the engine leaves in the metadata record.
ItemIdAnswers == {Num(0), W(40000, 9)}

\* The LIBMTP_File record send_file_from_file builds; item_id is not set and
\* so is 0.
Metadata(filename, source, size, storage_id, parent_id) ==
    [ item_id |-> Num(0),
      parent_id |-> ToCUint32(parent_id),
      storage_id |-> ToCUint32(storage_id),
      filename |-> filename,
      filesize |-> size,
      filetype |-> find_filetype(source) ]

\* send_file_precheck without the test of the local file.
send_file_precheck_nofile(dev, isfile) ==
    IF dev = None THEN "NotConnected" ELSE ""

\* The checks send_file_from_file makes first: the exception it raises, ""
\* when it goes on.  isfile is what os.path.isfile(source) answers.
send_file_precheck(dev, isfile) ==
    IF dev = None THEN "NotConnected"
    ELSE IF isfile = FALSE THEN "IOError"
    ELSE ""

\* The last argument recorded is the answer of os.path.isfile(source).
send_file_from_file ==
    \E source \in SourcePaths, target \in TargetNames,
       storage_id \in StorageIds, parent_id \in ParentIds, isfile \in BOOLEAN :
        LET args == <<source, target, storage_id, parent_id, isfile>>
            tenc == Utf8Encode(target)
            senc == Utf8Encode(source)
            pre == send_file_precheck(device, isfile)
        IN
        IF pre # ""
        THEN Data("send_file_from_file", args, Raise(pre), <<>>)
        ELSE IF ~tenc.ok \/ ~senc.ok
        THEN Data("send_file_from_file", args, Raise("UnicodeEncodeError"), <<>>)
        ELSE \E size \in FileSizes, st \in StatusAnswers, item \in ItemIdAnswers :
            \* the call's arguments: the path, the metadata record as built,
            \* and the record as the engine leaves it
            LET metadata == Metadata(tenc.v, source, size, storage_id, parent_id)
                written == [metadata EXCEPT !.item_id = item]
                c == Call("LIBMTP_Send_File_From_File", device,
                          <<senc.v, metadata, written>>, st)
            IN
            IF transfer_failed(st)
            THEN Data("send_file_from_file", args, Raise("CommandFailed"),
                      <<c>> \o debug_stack(device))
            ELSE Data("send_file_from_file", args, Return(written.item_id), <<c>>)

\* -------------------------------------------------------- get_file_to_file
FileIds == {Num(5), W(32768, 1)}
\* Local target paths: "out" and a lone surrogate.
TargetPaths == {<<111, 117, 116>>, <<56320>>}

\* get_file_to_file that gives the device up when the transfer fails.
get_file_to_file_drop ==
    \E file_id \in FileIds, target \in TargetPaths :
        LET args == <<file_id, target>>
            enc == Utf8Encode(target)
        IN
        IF device = None
        THEN Data("get_file_to_file", args, Raise("NotConnected"), <<>>)
        ELSE IF ~enc.ok
        THEN Data("get_file_to_file", args, Raise("UnicodeEncodeError"), <<>>)
        ELSE \E st \in StatusAnswers :
            LET c == Call("LIBMTP_Get_File_To_File", device,
                          <<ToCUint32(file_id), enc.v>>, st)
            IN
            IF transfer_failed(st)
            THEN /\ Ran("get_file_to_file", args, Raise("CommandFailed"),
                        <<c>> \o debug_stack(device))
                 /\ device' = None
                 /\ UNCHANGED <<new_raw_device, raw_devices>>
                 /\ EngineUnchanged
            ELSE Data("get_file_to_file", args, Return(<<>>), <<c>>)

get_file_to_file ==
    \E file_id \in FileIds, target \in TargetPaths :
        LET args == <<file_id, target>>
            enc == Utf8Encode(target)
        IN
        IF device = None
        THEN Data("get_file_to_file", args, Raise("NotConnected"), <<>>)
        ELSE IF ~enc.ok
        THEN Data("get_file_to_file", args, Raise("UnicodeEncodeError"), <<>>)
        ELSE \E st \in StatusAnswers :
            LET c == Call("LIBMTP_Get_File_To_File", device,
                          <<ToCUint32(file_id), enc.v>>, st)
            IN
            IF transfer_failed(st)
            THEN Data("get_file_to_file", args, Raise("CommandFailed"),
                      <<c>> \o debug_stack(device))
            ELSE Data("get_file_to_file", args, Return(<<>>), <<c>>)

\* ----------------------------------------------------------- delete_object
\* delete_object that asks the engine once more when the delete fails.
delete_object_retry ==
    \E object_id \in FileIds :
        LET args == <<object_id>> IN
        IF device = None
        THEN Data("delete_object", args, Raise("NotConnected"), <<>>)
        ELSE \E st \in StatusAnswers, st2 \in StatusAnswers :
            LET c == Call("LIBMTP_Delete_Object", device, <<ToCUint32(object_id)>>, st)
                c2 == Call("LIBMTP_Delete_Object", device, <<ToCUint32(object_id)>>, st2)
            IN
            IF transfer_failed(st) /\ transfer_failed(st2)
            THEN Data("delete_object", args, Raise("CommandFailed"),
                      <<c, c2>> \o debug_stack(device))
            ELSE IF transfer_failed(st)
            THEN Data("delete_object", args, Return(<<>>), <<c, c2>>)
            ELSE Data("delete_object", args, Return(<<>>), <<c>>)

delete_object ==
    \E object_id \in FileIds :
        LET args == <<object_id>> IN
        IF device = None
        THEN Data("delete_object", args, Raise("NotConnected"), <<>>)
        ELSE \E st \in StatusAnswers :
            LET c == Call("LIBMTP_Delete_Object", device, <<ToCUint32(object_id)>>, st) IN
            IF transfer_failed(st)
            THEN Data("delete_object", args, Raise("CommandFailed"),
                      <<c>> \o debug_stack(device))
            ELSE Data("delete_object", args, Return(<<>>), <<c>>)

\* ---------------------------------------------------- get_files_and_folder
\* next.contents of file node n: the structure at that node.
FileEntry(n) == n

\* The list get_files_and_folder builds from the engine's list.
WalkFiles(files) ==
    LET w == WalkList(files) IN
    IF w.kind = "return"
    THEN Return([i \in 1..Len(w.val) |-> FileEntry(w.val[i])])
    ELSE w

\* get_files_and_folder without the test of self.device.
get_files_and_folder_unguarded ==
    \E storage_id \in StorageIds, parent_id \in ParentIds, files \in ForeignLists :
        Data("get_files_and_folder", <<storage_id, parent_id>>, WalkFiles(files),
             <<Call("LIBMTP_Get_Files_And_Folders", device,
                    <<ToCUint32(storage_id), ToCUint32(parent_id)>>, files)>>)

get_files_and_folder ==
    \E storage_id \in StorageIds, parent_id \in ParentIds :
        LET args == <<storage_id, parent_id>> IN
        IF device = None
        THEN Data("get_files_and_folder", args, Raise("NotConnected"), <<>>)
        ELSE \E files \in ForeignLists :
            Data("get_files_and_folder", args, WalkFiles(files),
                 <<Call("LIBMTP_Get_Files_And_Folders", device,
                        <<ToCUint32(storage_id), ToCUint32(parent_id)>>, files)>>)

\* ------------------------------------------------------------- get_storage
\* Status codes of LIBMTP_Get_Storage.
StorageStatusAnswers == {0, 1, -1}
\* The StorageDescription bytes of node 1: "S1", NULL, or not UTF-8.  Node
\* n > 1 is described "e-acute" followed by a letter.
FirstDescriptions == {<<83, 49>>, NullStr, <<255>>}
StorageDescription(n, d1) == IF n = 1 THEN d1 ELSE <<195, 169, 64 + n>>
\* The id of storage node n (not in the order of the nodes).
StorageId(n) == W(1 + (n % 2), n)

\* A description the decoding of which raises.
BadDescription(b) == b = NullStr \/ ~Utf8Decode(b).ok

\* The lists LIBMTP_Get_Storage can leave in the device structure.
StorageAnswers == [list : ForeignLists, d1 : FirstDescriptions]

\* The walk of get_storage over device.contents.storage = st.
WalkStorage(st) ==
    LET entry(n) == <<Utf8Decode(StorageDescription(n, st.d1)).v, StorageId(n)>>
        w == WalkList(st.list)
        reached1 == \E k \in 0..MaxNodes : Hop(st.list.next, st.list.head, k) = 1
    IN
    IF reached1 /\ BadDescription(st.d1)
    THEN Raise(IF st.d1 = NullStr THEN "AttributeError" ELSE "UnicodeDecodeError")
    ELSE IF w.kind = "return"
    THEN Return([i \in 1..Len(w.val) |-> entry(w.val[i])])
    ELSE w

\* get_storage_failed that takes every status but 0 for a failure.
get_storage_failed_nonzero(err) == err # 0

\* `if err == -1` on the status of LIBMTP_Get_Storage.
get_storage_failed(err) == err = -1

get_storage ==
    IF device = None
    THEN Data("get_storage", <<>>, Raise("NotConnected"), <<>>)
    ELSE \E err \in StorageStatusAnswers :
        LET c == Call("LIBMTP_Get_Storage", device, <<0>>, err) IN
        IF get_storage_failed(err)
        THEN Data("get_storage", <<>>, Raise("CommandFailed"),
                  <<c, Call("LIBMTP_Dump_Errorstack", device, <<>>, 0),
                       Call("LIBMTP_Clear_Errorstack", device, <<>>, 0)>>)
        ELSE \E st \in StorageAnswers :
            /\ Ran("get_storage", <<>>, WalkStorage(st), <<c>>)
            /\ dev_storage' = st
            /\ UNCHANGED <<device, new_raw_device, raw_devices, lastOpened, releaseCount>>

\* ---------------------------------------------------------- detect_devices
LIBMTP_Error_Number ==
    [ NONE |-> 0, GENERAL |-> 1, PTP_LAYER |-> 2, USB_LAYER |-> 3,
      MEMORY_ALLOCATION |-> 4, NO_DEVICE_ATTACHED |-> 5, STORAGE_FULL |-> 6,
      CONNECTING |-> 7, CANCELLED |-> 8 ]

\* The status LIBMTP_Detect_Raw_Devices answers: a code of the table or one
\* outside it.
ErrorAnswers == 0..9

\* Sizes in bytes on an LP64 build: a pointer, and a LIBMTP_RawDevice (a
\* LIBMTP_DeviceEntry of 32 bytes, a c_uint32, a c_uint8 and padding).
SizeofPointer == 8
SizeofRawDevice == 40

\* self.raw_devices once the engine has stored the address of its buffer in
\* it.  Before the first enumeration the attribute is not set (None here).
DeviceBuffer == 1

\* The engine's descriptor number j (from 0): the LIBMTP_RawDevice that
\* starts at byte j * sizeof(LIBMTP_RawDevice) of the buffer.
Descriptor(j) == [offset |-> j * SizeofRawDevice]

\* The buffers the engine can hand over for `count` devices: `count`
\* descriptors or more.
BufferAnswers(count) ==
    { [j \in 1..len |-> Descriptor(j - 1)] : len \in count..MaxDevices }

\* `self.raw_devices[i]`: self.raw_devices is a POINTER(POINTER(
\* LIBMTP_RawDevice)), so element i is the pointer-sized object at byte
\* i * sizeof(pointer) of the buffer.  connect hands its address to the
\* engine as the address of a descriptor.
raw_devices_item(i) == [offset |-> i * SizeofPointer]

\* `err == LIBMTP_Error_Number[...]`: err is a Python int (restype c_int),
\* the table holds ctypes.c_int objects.  c_int defines no comparison with
\* a number, so `==` falls back to identity and answers False.
error_equals(err, code) == FALSE

\* The part of detect_devices after the call.
detect_devices_result(err, numdevs) ==
    IF error_equals(err, LIBMTP_Error_Number.NO_DEVICE_ATTACHED)
    THEN Return(<<>>)
    ELSE IF ~error_equals(err, LIBMTP_Error_Number.STORAGE_FULL)
            /\ error_equals(err, LIBMTP_Error_Number.CONNECTING)
    THEN Raise("AlreadyConnected")
    ELSE IF ~error_equals(err, LIBMTP_Error_Number.STORAGE_FULL)
            /\ \E code \in { LIBMTP_Error_Number.GENERAL, LIBMTP_Error_Number.PTP_LAYER,
                              LIBMTP_Error_Number.USB_LAYER,
                              LIBMTP_Error_Number.MEMORY_ALLOCATION,
                              LIBMTP_Error_Number.CANCELLED } :
                   error_equals(err, code)
    THEN Raise("CommandFailed")
    ELSE IF numdevs = 0
    THEN Return(<<>>)
    ELSE Return([i \in 1..numdevs |-> raw_devices_item(i - 1)])

\* detect_devices that wants a session without a device.
detect_devices_guarded ==
    IF device # None
    THEN Data("detect_devices", <<>>, Raise("AlreadyConnected"), <<>>)
    ELSE \E err \in ErrorAnswers, numdevs \in 0..MaxDevices :
        \E buffer \in BufferAnswers(numdevs) :
            /\ Ran("detect_devices", <<>>, detect_devices_result(err, numdevs),
                   <<Call("LIBMTP_Detect_Raw_Devices", None, <<>>,
                          [err |-> err, numdevs |-> numdevs, buffer |-> buffer])>>)
            /\ raw_devices' = DeviceBuffer
            /\ UNCHANGED <<device, new_raw_device>>
            /\ EngineUnchanged

\* The engine answers a status, a count and a buffer; the call names no
\* device handle.
detect_devices ==
    \E err \in ErrorAnswers, numdevs \in 0..MaxDevices :
        \E buffer \in BufferAnswers(numdevs) :
            /\ Ran("detect_devices", <<>>, detect_devices_result(err, numdevs),
                   <<Call("LIBMTP_Detect_Raw_Devices", None, <<>>,
                          [err |-> err, numdevs |-> numdevs, buffer |-> buffer])>>)
            /\ raw_devices' = DeviceBuffer
            /\ UNCHANGED <<device, new_raw_device>>
            /\ EngineUnchanged

\* ----------------------------------------------------------- find_filetype
\* find_filetype that asks for a device first.
find_filetype_call_guarded(filenames) ==
    \E filename \in filenames :
        IF device = None
        THEN Data("find_filetype", <<filename>>, Raise("NotConnected"), <<>>)
        ELSE Data("find_filetype", <<filename>>, Return(find_filetype(filename)), <<>>)

\* A call of find_filetype with one of `filenames`: the method reads no
\* field of the session and calls nothing but str methods.
find_filetype_call(filenames) ==
    \E filename \in filenames :
        Data("find_filetype", <<filename>>, Return(find_filetype(filename)), <<>>)

Next ==
    \/ MTP__init__
    \/ find_filetype_call(SourcePaths)
    \/ detect_devices
    \/ connect
    \/ disconnect
    \/ get_devicename
    \/ get_modelname
    \/ get_serialnumber
    \/ create_folder
    \/ send_file_from_file
    \/ get_file_to_file
    \/ delete_object
    \/ get_files_and_folder
    \/ get_storage

Spec == Init /\ [][Next]_vars

\* find_filetype as a function of its argument: a fresh session with one
\* filename of the input sets at hand, and the call of find_filetype on it.
InitFiletype ==
    /\ libmtp_is_initialized = FALSE
    /\ device = None
    /\ new_raw_device \in {None, RawDevice}
    /\ raw_devices = None
    /\ op \in [name : {"filename"}, args : {<<filename>> : filename \in Filenames}]
    /\ result = Return(<<>>)
    /\ calls = <<>>
    /\ lastOpened = None
    /\ releaseCount = [h \in Handles |-> 0]
    /\ dev_storage = NoStorage

NextFiletype ==
    /\ op.name = "filename"
    /\ find_filetype_call({op.args[1]})

SpecFiletype == InitFiletype /\ [][NextFiletype]_vars

\* ================================================================== claims
\* The data and mutation operations of a session.
DataOps ==
    {"get_devicename", "get_modelname", "get_serialnumber", "create_folder",
     "send_file_from_file", "get_file_to_file", "delete_object",
     "get_files_and_folder", "get_storage"}

MutatingOps == {"create_folder", "send_file_from_file", "get_file_to_file", "delete_object"}

Raised(r, e) == r.kind = "raise" /\ r.exc = e

SessionUnchanged == device' = device /\ new_raw_device' = new_raw_device

\* Number of calls of engine function fn on handle h among cs.
CountCalls(cs, fn, h) == Cardinality({i \in 1..Len(cs) : cs[i].fn = fn /\ cs[i].h = h})

\* The latest successful open's handle has been released: a disconnect has
\* returned and no connect has succeeded since.
AfterDisconnect == lastOpened # None /\ releaseCount[lastOpened] > 0

\* C1: while the session is Disconnected, each of the nine data and mutation
\* operations raises NotConnected, issues no engine call (none is recorded
\* and the engine's state stays) and leaves the session's fields as they are.
C1_DisconnectedOpsFail ==
    [][ (device = None /\ op'.name \in DataOps)
        => /\ Raised(result', "NotConnected")
           /\ calls' = <<>>
           /\ SessionUnchanged
           /\ UNCHANGED <<lastOpened, releaseCount, dev_storage>> ]_vars

C1_Witness ==
    /\ device = None
    /\ op.name = "get_files_and_folder"
    /\ Raised(result, "NotConnected")
    /\ lastOpened # None

\* C2: connect on a Connected session raises AlreadyConnected without an
\* open-device call and keeps the handle; the operations that follow are
\* issued with that handle.
C2_ConnectWhileConnected ==
    [][ /\ (device # None /\ op'.name = "connect")
           => /\ Raised(result', "AlreadyConnected")
              /\ calls' = <<>>
              /\ device' = device
              /\ lastOpened' = lastOpened
        /\ (op.name = "connect" /\ Raised(result, "AlreadyConnected") /\ op'.name \in DataOps)
           => /\ device \in Handles
              /\ ~Raised(result', "NotConnected")
              /\ \A i \in 1..Len(calls') : calls'[i].h = device ]_vars

C2_Witness ==
    /\ op.name = "connect"
    /\ Raised(result, "AlreadyConnected")
    /\ device \in Handles
    /\ device = lastOpened

\* C3: once a disconnect has returned, every data or mutation operation
\* raises NotConnected until a connect succeeds again.
C3_AfterDisconnectNotConnected ==
    [][ (AfterDisconnect /\ op'.name \in DataOps)
        => Raised(result', "NotConnected") /\ calls' = <<>> ]_vars

C3_Witness ==
    /\ AfterDisconnect
    /\ op.name \in DataOps
    /\ Raised(result, "NotConnected")

\* C4: disconnect on a Connected session issues exactly one engine call, the
\* release of the session's handle, returns, and leaves the session
\* Disconnected whatever the release reports.
C4_DisconnectReleasesOnce ==
    [][ (device # None /\ op'.name = "disconnect")
        => /\ Len(calls') = 1
           /\ calls'[1].fn = "LIBMTP_Release_Device"
           /\ calls'[1].h = device
           /\ releaseCount'[device] = releaseCount[device] + 1
           /\ result'.kind = "return"
           /\ device' = None ]_vars

C4_Witness ==
    /\ op.name = "disconnect"
    /\ result.kind = "return"
    /\ Len(calls) = 1
    /\ calls[1].ret # 0
    /\ device = None

\* C5: disconnect on a Disconnected session raises NotConnected and issues no
\* release, and no handle is ever released twice.
C5_DisconnectWhileDisconnected ==
    [][ /\ (device = None /\ op'.name = "disconnect")
           => /\ Raised(result', "NotConnected")
              /\ calls' = <<>>
              /\ releaseCount' = releaseCount
        /\ \A h \in Handles : releaseCount'[h] <= 1 ]_vars

C5_Witness ==
    /\ op.name = "disconnect"
    /\ Raised(result, "NotConnected")
    /\ AfterDisconnect

\* The engine calls that take no device handle.
NoHandleCalls ==
    {"LIBMTP_Init", "LIBMTP_Open_Raw_Device_Uncached", "LIBMTP_Detect_Raw_Devices"}

\* C6: every engine call that takes a device is given the handle of the latest
\* successful open, and that handle has not been released before the call.
C6_NoUseAfterRelease ==
    \A i \in 1..Len(calls) :
        calls[i].fn \notin NoHandleCalls
        => /\ calls[i].h \in Handles
           /\ calls[i].h = lastOpened
           /\ releaseCount[calls[i].h]
                = (IF calls[i].fn = "LIBMTP_Release_Device" THEN 1 ELSE 0)

C6_Witness ==
    /\ lastOpened > 1
    /\ releaseCount[1] = 1
    /\ op.name \in DataOps
    /\ calls # <<>>
    /\ calls[1].h = lastOpened

\* C7: a connect whose open-device call answers NULL raises NoDeviceConnected
\* and leaves self.device None; the operations after it raise NotConnected
\* and a further connect is not turned down as AlreadyConnected.
C7_FailedOpen ==
    [][ /\ (device = None /\ op'.name = "connect" /\ calls' # <<>> /\ calls'[1].ret = NullPtr)
           => Raised(result', "NoDeviceConnected") /\ device' = None
        /\ (op.name = "connect" /\ Raised(result, "NoDeviceConnected"))
           => /\ device = None
              /\ op'.name \in DataOps => Raised(result', "NotConnected")
              /\ op'.name = "connect" => ~Raised(result', "AlreadyConnected") ]_vars

C7_Witness ==
    /\ op.name = "connect"
    /\ Raised(result, "NoDeviceConnected")
    /\ Len(calls) = 1
    /\ calls[1].ret = NullPtr
    /\ device = None

C9_DumpAndClearOnce ==
    (op.name \in MutatingOps /\ Raised(result, "CommandFailed"))
    => /\ CountCalls(calls, "LIBMTP_Dump_Errorstack", device) = 1
       /\ CountCalls(calls, "LIBMTP_Clear_Errorstack", device) = 1

\* C10: create_folder on a Connected session returns the id the engine
\* answered when it is not 0 and raises CommandFailed when it is 0; the engine
\* is given the name, the parent id and the storage id of the caller, 0 for
\* the ones left out.
C10_CreateFolderResult ==
    (op.name = "create_folder" /\ calls # <<>>)
    => LET c == calls[1]
           parent == IF op.args[2] = Omitted THEN Num(0) ELSE op.args[2]
           storage == IF op.args[3] = Omitted THEN Num(0) ELSE op.args[3]
       IN /\ c.fn = "LIBMTP_Create_Folder"
          /\ c.h = device
          /\ Utf8Decode(c.args[1]) = Ok(op.args[1])
          /\ c.args[2] = parent
          /\ c.args[3] = storage
          /\ IF IsZero(c.ret)
             THEN Raised(result, "CommandFailed")
             ELSE result.kind = "return" /\ result.val = c.ret

\* The operations of C12: a transfer or a delete reports a status.
StatusOps == {"send_file_from_file", "get_file_to_file", "delete_object"}

\* The last operation failed the way C13 lists: the engine refused it
\* (CommandFailed) or the local source file was missing (IOError).
FailedOp ==
    \/ /\ op.name \in MutatingOps \cup {"get_storage"}
       /\ Raised(result, "CommandFailed")
    \/ /\ op.name = "send_file_from_file"
       /\ Raised(result, "IOError")

\* C11: send_file_from_file on a Connected session with a source path that
\* is no file raises the file-not-found error (IOError) before any engine
\* call; the session keeps its handle and the engine's state stays.
C11_MissingSourceFile ==
    [][ (device # None /\ op'.name = "send_file_from_file" /\ op'.args[5] = FALSE)
        => /\ Raised(result', "IOError")
           /\ calls' = <<>>
           /\ SessionUnchanged
           /\ device' # None
           /\ UNCHANGED <<lastOpened, releaseCount, dev_storage>> ]_vars

C11_Witness ==
    /\ device # None
    /\ op.name = "send_file_from_file"
    /\ op.args[5] = FALSE
    /\ Raised(result, "IOError")
    /\ calls = <<>>

\* C12: on a Connected session send_file_from_file, get_file_to_file and
\* delete_object raise CommandFailed exactly when the engine's status is not
\* 0; on status 0 get and delete return nothing and send returns the item id
\* the engine wrote into the metadata record.
C12_StatusDecides ==
    (op.name \in StatusOps /\ device # None)
    => /\ Raised(result, "CommandFailed") <=> (calls # <<>> /\ calls[1].ret # 0)
       /\ (calls # <<>> /\ calls[1].ret = 0)
          => IF op.name = "send_file_from_file"
             THEN result = Return(calls[1].args[3].item_id)
             ELSE result = Return(<<>>)

C12_Witness ==
    /\ device # None
    /\ op.name = "send_file_from_file"
    /\ calls # <<>>
    /\ calls[1].ret = 0
    /\ calls[1].args[2].item_id = Num(0)
    /\ calls[1].args[3].item_id = W(40000, 9)
    /\ result = Return(W(40000, 9))

\* C13: an operation that fails on a Connected session (the engine refuses
\* create_folder, a transfer, a delete or get_storage, or the source file of
\* a send is missing) keeps the session Connected with the same handle and
\* releases no device; the operation after it is not turned away as
\* NotConnected and every call it issues goes to that handle.
C13_FailureKeepsSession ==
    [][ /\ (device # None /\ FailedOp')
           => /\ device' = device
              /\ releaseCount' = releaseCount
              /\ \A i \in 1..Len(calls') : calls'[i].fn # "LIBMTP_Release_Device"
        /\ (device # None /\ FailedOp /\ op'.name \in DataOps)
           => /\ ~Raised(result', "NotConnected")
              /\ \A i \in 1..Len(calls') : calls'[i].h = device ]_vars

C13_Witness ==
    /\ op.name = "get_file_to_file"
    /\ Raised(result, "CommandFailed")
    /\ device # None
    /\ device = lastOpened
    /\ releaseCount[device] = 0

\* The nodes of list l in the order of the chain, each once: node k is the
\* one reached after k hops, as long as no earlier hop reached it.
Reachable(l) == { n \in Nodes : \E k \in 0..MaxNodes : Hop(l.next, l.head, k) = n }

\* C14: get_storage on a Connected session, when the status is not -1,
\* returns one (description, id) pair for each node of the device's storage
\* list, in the order of the list, none left out and none twice; no list
\* gives the empty sequence.
C14_StoragePairs ==
    (op.name = "get_storage" /\ calls # <<>> /\ calls[1].ret # -1)
    => LET l == dev_storage.list
           n == Cardinality(Reachable(l))
       IN /\ result.kind = "return"
          /\ Len(result.val) = n
          /\ \A i \in 1..n :
                LET node == Hop(l.next, l.head, i - 1) IN
                /\ result.val[i][2] = StorageId(node)
                /\ Utf8Encode(result.val[i][1]) = Ok(StorageDescription(node, dev_storage.d1))

\* C15: get_storage on a Connected session with status -1 dumps and then
\* clears the error stack of the handle, raises CommandFailed and returns no
\* entry; with any other status it raises no CommandFailed.
C15_StorageStatus ==
    (op.name = "get_storage" /\ calls # <<>>)
    => IF calls[1].ret = -1
       THEN /\ Len(calls) = 3
            /\ calls[2] = Call("LIBMTP_Dump_Errorstack", device, <<>>, 0)
            /\ calls[3] = Call("LIBMTP_Clear_Errorstack", device, <<>>, 0)
            /\ Raised(result, "CommandFailed")
            /\ result.val = <<>>
       ELSE /\ ~Raised(result, "CommandFailed")
            /\ Len(calls) = 1

C15_Witness ==
    /\ op.name = "get_storage"
    /\ device # None
    /\ Len(calls) = 3
    /\ calls[1].ret = -1
    /\ Raised(result, "CommandFailed")

\* C16: detect_devices returns the empty sequence, and raises nothing, when
\* the enumeration answers NO_DEVICE_ATTACHED.
C16_NoDeviceAttached ==
    (op.name = "detect_devices"
     /\ calls[1].ret.err = LIBMTP_Error_Number.NO_DEVICE_ATTACHED)
    => result = Return(<<>>)

\* The statuses of C17 other than CONNECTING.
FailureStatuses ==
    { LIBMTP_Error_Number.GENERAL, LIBMTP_Error_Number.PTP_LAYER,
      LIBMTP_Error_Number.USB_LAYER, LIBMTP_Error_Number.MEMORY_ALLOCATION,
      LIBMTP_Error_Number.CANCELLED }

\* C17: detect_devices raises AlreadyConnected when the enumeration answers
\* CONNECTING and CommandFailed when it answers GENERAL, PTP_LAYER, USB_LAYER,
\* MEMORY_ALLOCATION or CANCELLED, and returns no device then, whatever
\* count the engine reported.
C17_ErrorStatusRaises ==
    (op.name = "detect_devices")
    => LET err == calls[1].ret.err IN
       /\ err = LIBMTP_Error_Number.CONNECTING => Raised(result, "AlreadyConnected")
       /\ err \in FailureStatuses => Raised(result, "CommandFailed")
       /\ err \in FailureStatuses \cup {LIBMTP_Error_Number.CONNECTING}
          => result.val = <<>>

\* C18: detect_devices calls the enumeration exactly once and, when the
\* status is NONE or STORAGE_FULL, returns the first `count` descriptors of
\* the engine's buffer in the buffer's order, however long the buffer is;
\* the empty sequence when the count is 0.
C18_FirstCountDescriptors ==
    (op.name = "detect_devices")
    => /\ Len(calls) = 1
       /\ calls[1].fn = "LIBMTP_Detect_Raw_Devices"
       /\ calls[1].ret.err \in {LIBMTP_Error_Number.NONE, LIBMTP_Error_Number.STORAGE_FULL}
          => result = Return([i \in 1..calls[1].ret.numdevs |-> calls[1].ret.buffer[i]])

\* The list the last operation walked, for the two operations that walk one.
WalkedList ==
    IF op.name = "get_files_and_folder" THEN calls[1].ret ELSE dev_storage.list

\* The last operation walked a foreign list.
Walked ==
    /\ calls # <<>>
    /\ \/ op.name = "get_files_and_folder"
       \/ op.name = "get_storage" /\ calls[1].ret # -1

\* C19: the walk of get_files_and_folder and of get_storage over the foreign
\* list ends whatever the list's shape; on a list with a cycle it ends in
\* MalformedForeignData.
C19_TraversalTerminates ==
    Walked
    => /\ result.kind # "hang"
       /\ ~Acyclic(WalkedList) => Raised(result, "MalformedForeignData")

\* C20: get_files_and_folder on a Connected session returns, for a list of n
\* entries that ends, exactly n entries in the order of the list; for no
\* list (a NULL head) the empty sequence and no error.
C20_FilesInOrder ==
    (op.name = "get_files_and_folder" /\ calls # <<>> /\ Acyclic(calls[1].ret))
    => LET l == calls[1].ret
           n == Cardinality(Reachable(l))
       IN /\ result.kind = "return"
          /\ Len(result.val) = n
          /\ \A i \in 1..n : result.val[i] = FileEntry(Hop(l.next, l.head, i - 1))
          /\ l.head = NULL => result = Return(<<>>)

C20_Witness ==
    /\ op.name = "get_files_and_folder"
    /\ device # None
    /\ calls[1].ret = ForeignList(2, NULL)
    /\ result = Return(<<FileEntry(1), FileEntry(2)>>)

\* The extension of a filename as the specification reads it: what follows
\* the last "." and nothing when the name holds no ".".
HasDot(s) == \E i \in 1..Len(s) : s[i] = 46
Extension(s) ==
    IF HasDot(s)
    THEN LET k == CHOOSE i \in 1..Len(s) : s[i] = 46 /\ \A j \in i + 1..Len(s) : s[j] # 46
         IN [i \in 1..Len(s) - k |-> s[k + i]]
    ELSE <<>>

\* The table of the specification: extension and file-type code.
SpecTable ==
    {
      [ext |-> <<119, 97, 118>>, code |-> LIBMTP_Filetype.WAV],  \* wav
      [ext |-> <<109, 112, 51>>, code |-> LIBMTP_Filetype.MP3],  \* mp3
      [ext |-> <<119, 109, 97>>, code |-> LIBMTP_Filetype.WMA],  \* wma
      [ext |-> <<111, 103, 103>>, code |-> LIBMTP_Filetype.OGG],  \* ogg
      [ext |-> <<97, 97, 99>>, code |-> LIBMTP_Filetype.AAC],  \* aac
      [ext |-> <<109, 112, 50>>, code |-> LIBMTP_Filetype.MP2],  \* mp2
      [ext |-> <<102, 108, 97, 99>>, code |-> LIBMTP_Filetype.FLAC],  \* flac
      [ext |-> <<109, 52, 97>>, code |-> LIBMTP_Filetype.M4A],  \* m4a
      [ext |-> <<109, 112, 52>>, code |-> LIBMTP_Filetype.MP4],  \* mp4
      [ext |-> <<119, 109, 118>>, code |-> LIBMTP_Filetype.WMV],  \* wmv
      [ext |-> <<97, 118, 105>>, code |-> LIBMTP_Filetype.AVI],  \* avi
      [ext |-> <<109, 112, 101, 103>>, code |-> LIBMTP_Filetype.MPEG],  \* mpeg
      [ext |-> <<109, 112, 103>>, code |-> LIBMTP_Filetype.MPEG],  \* mpg
      [ext |-> <<97, 115, 102>>, code |-> LIBMTP_Filetype.ASF],  \* asf
      [ext |-> <<109, 111, 118>>, code |-> LIBMTP_Filetype.QT],  \* mov
      [ext |-> <<113, 116>>, code |-> LIBMTP_Filetype.QT],  \* qt
      [ext |-> <<106, 112, 101, 103>>, code |-> LIBMTP_Filetype.JPEG],  \* jpeg
      [ext |-> <<106, 112, 103>>, code |-> LIBMTP_Filetype.JPEG],  \* jpg
      [ext |-> <<106, 102, 105, 102>>, code |-> LIBMTP_Filetype.JFIF],  \* jfif
      [ext |-> <<116, 105, 102, 102>>, code |-> LIBMTP_Filetype.TIFF],  \* tiff
      [ext |-> <<116, 105, 102>>, code |-> LIBMTP_Filetype.TIFF],  \* tif
      [ext |-> <<98, 109, 112>>, code |-> LIBMTP_Filetype.BMP],  \* bmp
      [ext |-> <<103, 105, 102>>, code |-> LIBMTP_Filetype.GIF],  \* gif
      [ext |-> <<112, 105, 99, 116>>, code |-> LIBMTP_Filetype.PICT],  \* pict
      [ext |-> <<112, 105, 99>>, code |-> LIBMTP_Filetype.PICT],  \* pic
      [ext |-> <<112, 110, 103>>, code |-> LIBMTP_Filetype.PNG],  \* png
      [ext |-> <<119, 109, 102>>, code |-> LIBMTP_Filetype.WINDOWSIMAGEFORMAT],  \* wmf
      [ext |-> <<100, 111, 99>>, code |-> LIBMTP_Filetype.DOC],  \* doc
      [ext |-> <<120, 109, 108>>, code |-> LIBMTP_Filetype.XML],  \* xml
      [ext |-> <<120, 108, 115>>, code |-> LIBMTP_Filetype.XLS],  \* xls
      [ext |-> <<112, 112, 116>>, code |-> LIBMTP_Filetype.PPT],  \* ppt
      [ext |-> <<109, 104, 116>>, code |-> LIBMTP_Filetype.MHT],  \* mht
      [ext |-> <<106, 112, 50>>, code |-> LIBMTP_Filetype.JP2],  \* jp2
      [ext |-> <<106, 112, 120>>, code |-> LIBMTP_Filetype.JPX],  \* jpx
      [ext |-> <<105, 99, 115>>, code |-> LIBMTP_Filetype.VCALENDAR2],  \* ics
      [ext |-> <<101, 120, 101>>, code |-> LIBMTP_Filetype.WINEXEC],  \* exe
      [ext |-> <<99, 111, 109>>, code |-> LIBMTP_Filetype.WINEXEC],  \* com
      [ext |-> <<98, 97, 116>>, code |-> LIBMTP_Filetype.WINEXEC],  \* bat
      [ext |-> <<100, 108, 108>>, code |-> LIBMTP_Filetype.WINEXEC],  \* dll
      [ext |-> <<115, 121, 115>>, code |-> LIBMTP_Filetype.WINEXEC]  \* sys
    }

\* The same table with the one extension find_filetype knows beyond it.
CodeTable == SpecTable \cup {[ext |-> <<119, 97, 118, 101>>, code |-> LIBMTP_Filetype.WAV]}

\* The code `table` gives extension e: UNKNOWN when e is not in it.
TableCode(table, e) ==
    IF \E r \in table : r.ext = e
    THEN (CHOOSE r \in table : r.ext = e).code
    ELSE LIBMTP_Filetype.UNKNOWN

\* find_filetype has answered for the filename op.args[1].
Classified == op.name = "find_filetype"

\* C21: find_filetype does not look at the case of the letters: the code of
\* a filename is the code of its lower-cased form ("track.FLAC" gives FLAC
\* as "track.flac" does).
C21_CaseInsensitive ==
    Classified
    => /\ result = Return(find_filetype(Lower(op.args[1])))
       /\ Lower(op.args[1]) = <<116, 114, 97, 99, 107, 46, 102, 108, 97, 99>>
          => result = Return(LIBMTP_Filetype.FLAC)

C21_Witness ==
    /\ Classified
    /\ op.args[1] = <<116, 114, 97, 99, 107, 46, 70, 76, 65, 67>>
    /\ result = Return(LIBMTP_Filetype.FLAC)

\* C22 as stated: find_filetype never fails and gives the code the
\* specification's table has for the lower-cased extension of the filename,
\* UNKNOWN for every extension that is not in the table.
C22_SpecTable ==
    Classified
    => result = Return(TableCode(SpecTable, Extension(Lower(op.args[1]))))

\* C22: find_filetype never fails; for a filename that holds a "." it gives
\* the code that the specification's table, with wave added for WAV, has for
\* the lower-cased text after the last ".", and UNKNOWN for every other such
\* text, the empty one too.
C22_CodeTable ==
    Classified
    => /\ result.kind = "return"
       /\ HasDot(op.args[1])
          => result.val = TableCode(CodeTable, Extension(Lower(op.args[1])))

C22_Witness ==
    /\ Classified
    /\ op.args[1] = <<97, 46, 98, 46, 87, 65, 86, 69>>
    /\ result = Return(LIBMTP_Filetype.WAV)

\* C26: a filename without a "." has no extension and gets UNKNOWN, also
\* when the whole name reads like an extension ("mp3", "wav").
C26_NoExtensionUnknown ==
    (Classified /\ ~HasDot(op.args[1]))
    => result = Return(LIBMTP_Filetype.UNKNOWN)

\* C27: find_filetype answers in every state of the session, Connected or
\* not, with a code that depends on the filename only; it calls nothing of
\* the engine and leaves the session and the engine as they are.
C27_ClassifierPure ==
    [][ op'.name = "find_filetype"
        => /\ result' = Return(TableCode(CodeTable, file_extension(op'.args[1])))
           /\ calls' = <<>>
           /\ SessionUnchanged
           /\ UNCHANGED <<raw_devices, lastOpened, releaseCount, dev_storage>> ]_vars

C27_Witness ==
    /\ Classified
    /\ device # None
    /\ op.args[1] = <<97, 46, 77, 80, 51>>
    /\ result = Return(LIBMTP_Filetype.MP3)
    /\ calls = <<>>

\* C23: LIBMTP_Init is called once in the process: the construction of a
\* further session, once the first one exists, calls it no more.
C23_InitOnce ==
    [][ op'.name = "__init__"
        => \A i \in 1..Len(calls') : calls'[i].fn # "LIBMTP_Init" ]_vars

\* C24: whatever 32-bit object id the engine answers, ids of 2^31 and more
\* included, a value create_folder returns is greater than 0.
C24_FolderIdPositive ==
    (op.name = "create_folder" /\ result.kind = "return")
    => IsPositive(result.val)

Getters == {"get_devicename", "get_modelname", "get_serialnumber"}

\* C25: on a Connected session the three string getters never fail: they
\* return the string the engine answered, and a value for "absent" when it
\* answered NULL.
C25_GettersNeverFail ==
    (op.name \in Getters /\ calls # <<>>)
    => /\ result.kind = "return"
       /\ calls[1].ret # NullStr => Utf8Encode(result.val) = Ok(calls[1].ret)

\* val is the storage list st as (description, id) pairs, one per node in
\* the order of the chain.
IsStorageList(val, st) ==
    LET n == Cardinality(Reachable(st.list)) IN
    /\ Len(val) = n
    /\ \A i \in 1..n :
          LET node == Hop(st.list.next, st.list.head, i - 1) IN
          /\ Utf8Encode(val[i][1]) = Ok(StorageDescription(node, st.d1))
          /\ val[i][2] = StorageId(node)

\* C28: get_storage keeps nothing from one call to the next: each call on a
\* Connected session asks the engine and returns the storage list the
\* device structure holds after that call, whatever it held before.
C28_StorageNotCached ==
    [][ (device # None /\ op'.name = "get_storage")
        => /\ Len(calls') >= 1
           /\ calls'[1] = Call("LIBMTP_Get_Storage", device, <<0>>, calls'[1].ret)
           /\ calls'[1].ret # -1
              => /\ result'.kind = "return"
                 /\ IsStorageList(result'.val, dev_storage') ]_vars

\* The engine call each operation is there for.
PrimaryCall ==
    [ connect |-> "LIBMTP_Open_Raw_Device_Uncached",
      create_folder |-> "LIBMTP_Create_Folder",
      send_file_from_file |-> "LIBMTP_Send_File_From_File",
      get_file_to_file |-> "LIBMTP_Get_File_To_File",
      delete_object |-> "LIBMTP_Delete_Object",
      get_files_and_folder |-> "LIBMTP_Get_Files_And_Folders",
      get_storage |-> "LIBMTP_Get_Storage" ]

\* The answer ret of the primary call of operation name reports a failure.
PrimaryFailed(name, ret) ==
    CASE name = "connect" -> ret = NullPtr
      [] name = "create_folder" -> IsZero(ret)
      [] name \in StatusOps -> ret # 0
      [] name = "get_storage" -> ret = -1
      [] OTHER -> FALSE

\* C29: no operation asks the engine twice: an invocation of connect,
\* create_folder, send_file_from_file, get_file_to_file, delete_object,
\* get_files_and_folder or get_storage issues its primary call at most once,
\* and when that call fails the operation raises.
C29_NoRetry ==
    op.name \in DOMAIN PrimaryCall
    => LET primary == {i \in 1..Len(calls) : calls[i].fn = PrimaryCall[op.name]} IN
       /\ Cardinality(primary) <= 1
       /\ \A i \in primary : i = 1
       /\ \A i \in primary :
             PrimaryFailed(op.name, calls[i].ret) => result.kind = "raise"

C29_Witness ==
    /\ op.name = "delete_object"
    /\ Len(calls) >= 1
    /\ calls[1].fn = "LIBMTP_Delete_Object"
    /\ calls[1].ret = -1
    /\ Raised(result, "CommandFailed")

\* The open-device calls among cs.
Opens(cs) == {i \in 1..Len(cs) : cs[i].fn = "LIBMTP_Open_Raw_Device_Uncached"}

\* C30 as stated: the descriptor is used for one open-device call only: a
\* session that has been disconnected does not open the device again.
C30_OpenOnce ==
    [][ (AfterDisconnect /\ op'.name = "connect") => Opens(calls') = {} ]_vars

\* C30: a connect call issues the open-device call at most once, with the
\* descriptor of the session, and exactly once when the session is
\* Disconnected and has a descriptor; connect and disconnect keep the
\* descriptor, so that a connect after a disconnect opens the device again.
C30_OpenPerConnect ==
    [][ /\ op'.name = "connect"
           => /\ Cardinality(Opens(calls')) <= 1
              /\ \A i \in Opens(calls') : calls'[i].args = <<new_raw_device>>
              /\ (device = None /\ new_raw_device # None) <=> Opens(calls') # {}
        /\ op'.name \in {"connect", "disconnect"}
           => new_raw_device' = new_raw_device ]_vars

C30_Witness ==
    /\ op.name = "connect"
    /\ Opens(calls) = {1}
    /\ calls[1].args = <<RawDevice>>
    /\ device # None
    /\ \E h \in Handles : h # device /\ releaseCount[h] > 0

RECURSIVE ReleasesUpTo(_)
\* The number of release calls the engine has received on handles 1..h.
ReleasesUpTo(h) == IF h = 0 THEN 0 ELSE releaseCount[h] + ReleasesUpTo(h - 1)

\* The number of open-device calls that answered a handle: the engine numbers
\* its handles in the order of the opens, lastOpened is the latest.
SuccessfulOpens == lastOpened

\* C31: in every state of a session the successful open-device calls are as
\* many as the release calls, or one more, and one more exactly when the
\* session is Connected; the handle then held is the one opened last and is
\* not released, and every handle released was opened, and released once.
C31_OpensMinusReleases ==
    LET live == SuccessfulOpens - ReleasesUpTo(MaxOpens) IN
    /\ live \in {0, 1}
    /\ live = 1 <=> device # None
    /\ device # None => device = lastOpened /\ releaseCount[device] = 0
    /\ \A h \in Handles : releaseCount[h] > 0 => h <= lastOpened /\ releaseCount[h] = 1
    /\ \A h \in Handles : (h <= lastOpened /\ h # device) => releaseCount[h] = 1

C31_Witness ==
    /\ lastOpened = 2
    /\ device = 2
    /\ releaseCount[1] = 1
    /\ releaseCount[2] = 0
    /\ op.name \in DataOps

\* C32: detect_devices is taken in every state of the session, Connected or
\* not: it is never refused as NotConnected, and as AlreadyConnected only
\* for the engine's status; it calls the enumeration, its outcome follows
\* from the engine's answer alone, and self.device, the descriptor of the
\* session and the engine's devices are left as they are.
C32_DetectIndependent ==
    [][ op'.name = "detect_devices"
        => /\ Len(calls') = 1
           /\ calls'[1].fn = "LIBMTP_Detect_Raw_Devices"
           /\ ~Raised(result', "NotConnected")
           /\ Raised(result', "AlreadyConnected")
              => calls'[1].ret.err = LIBMTP_Error_Number.CONNECTING
           /\ result' = detect_devices_result(calls'[1].ret.err, calls'[1].ret.numdevs)
           /\ SessionUnchanged
           /\ UNCHANGED <<lastOpened, releaseCount, dev_storage>> ]_vars

C32_Witness ==
    /\ op.name = "detect_devices"
    /\ device # None
    /\ new_raw_device = RawDevice
    /\ result.kind = "return"
    /\ Len(result.val) = 2

====
